---- MODULE Spec2Model ----
(***************************************************************************)
(* The generic event Bus of src/event/event.go: a registry                 *)
(* map[string][]reflect.Value guarded by a sync.RWMutex, mutated by Add,   *)
(* Delete, DeleteAll, Purge and Reset and read by Fire, which calls every  *)
(* registered callback in its own goroutine and waits for all of them.     *)
(* With it the typed Bus of src/unnamed: a registry map[Type][]Handler     *)
(* with AddHandler, DeleteHandler and Fire.                                *)
(***************************************************************************)
EXTENDS Integers, Sequences, FiniteSets, TLC

\* ------------------------------------------------------------------ bounds

\* Longest callback slice a topic may hold when one goroutine calls the Bus
\* (Add is not offered beyond it).
MaxLen == 3

\* The same, when a firing and a mutating goroutine call the Bus together.
MaxLenConc == 2

\* The most handlers a type of the typed Bus holds.
MaxHandlers == 3

\* ------------------------------------------------------------------ inputs

\* Caller goroutines.
Procs == {"g1", "g2"}

\* The goroutine that calls Fire, and the one that mutates the registry
\* meanwhile, in the concurrent specification.
Firer == "g1"

Mutator == "g2"

\* Topic names (the string keys of bus.callbacks).
Topics == {"T", "U"}

\* Function values a caller may pass as a callback.
Funcs == {"f1", "f2"}

\* A function without parameters (testCallbackEmpty).
NullaryFunc == "f0"

\* A function that calls the Bus it is registered with.
NestFunc == "fnest"

\* The values of kind func.
FuncValues == Funcs \cup {NullaryFunc, NestFunc}

\* A value of kind string (the "invalid" of TestAddInvalid).
StrValue == "invalid"

\* The untyped nil interface value.
NilValue == "nil"

\* The values of some kind a caller may pass where a callback is expected.
TypedValues == Funcs \cup {StrValue}

\* Everything a caller may pass where a callback is expected.
Values == TypedValues \cup {NilValue}

\* The arguments of TestFire.
TestArgs == <<"1", "test", "false">>

\* Argument lists a caller may pass to Fire.
ArgLists == {<< >>, TestArgs}

NoProc == "none"

NoCall == [name |-> "none", t |-> "-", f |-> "-", args |-> << >>]

NoRes == [found |-> FALSE, err |-> "-"]

\* make(map[string][]reflect.Value)
EmptyMap == [x \in {} |-> << >>]

\* The event type of the typed Bus's tests.
testEventType == 2

Types == {testEventType}

\* Handler ids as testMakeHandlers makes them: strconv.Itoa(i).
Ids == {"0", "1", "2"}

\* Values of type HandleFunc.
HandleFuncs == {"h1", "h2"}

\* Handlers of the typed Bus with Id and Callback.
IdHandlers == [Id : Ids, Callback : HandleFuncs]

\* Handlers of the typed Bus with Name and Fun.
NamedHandlers == [Name : {"0", "1"}, Fun : {"h1"}]

\* ------------------------------------------------------- pure functions

\* reflect.TypeOf(x).Kind(); reflect.TypeOf of the nil interface is the nil
\* Type, which has no Kind.
TypeOf(x) ==
  IF x = NilValue THEN "nilType"
  ELSE IF x \in FuncValues THEN "func"
  ELSE "string"

\* reflect.ValueOf(x): the boxed value, compared with == by del.
ValueOf(x) == [kind |-> TypeOf(x), ptr |-> x]

\* What a callee receives for a boxed argument when reflect.Value.Call
\* binds it to a parameter.
Interface(v) == v.ptr

BoxAll(args) == [i \in 1..Len(args) |-> ValueOf(args[i])]

UnboxAll(vals) == [i \in 1..Len(vals) |-> Interface(vals[i])]

\* validateCallback: "nil" (no error), "error", or "panic" when Kind() is
\* called on the nil Type.
validateCallback_AcceptAny(f) ==
  IF TypeOf(f) = "nilType" THEN "panic" ELSE "nil"

validateCallback(f) ==
  IF TypeOf(f) = "nilType" THEN "panic"
  ELSE IF TypeOf(f) # "func" THEN "error"
  ELSE "nil"

\* The map lookup bus.callbacks[t]: the nil slice for an absent key.
Get(reg, t) == IF t \in DOMAIN reg THEN reg[t] ELSE << >>

\* append(s[:i], s[i+1:]...), i counted from 0.
removeAt_SwapLast(s, i) ==
  SubSeq([s EXCEPT ![i + 1] = s[Len(s)]], 1, Len(s) - 1)

removeAt(s, i) == SubSeq(s, 1, i) \o SubSeq(s, i + 2, Len(s))

\* The for loop of del: i counted from 0 and compared with the current
\* length on every iteration; i++ runs after a removal too.
RECURSIVE delLoop(_, _, _, _, _)
delLoop(s, i, v, all, found) ==
  IF i >= Len(s) THEN [s |-> s, found |-> found]
  ELSE IF s[i + 1] = v
       THEN IF all
            THEN delLoop(removeAt(s, i), i + 1, v, all, TRUE)
            ELSE [s |-> removeAt(s, i), found |-> TRUE]
       ELSE delLoop(s, i + 1, v, all, found)

\* if len(bus.callbacks[t]) == 0 { delete(bus.callbacks, t) }
prune_Clear(reg, t) ==
  IF t \in DOMAIN reg /\ Len(reg[t]) = 0 THEN EmptyMap ELSE reg

prune_Keep(reg, t) == reg

prune(reg, t) ==
  IF Len(reg[t]) = 0
  THEN [x \in DOMAIN reg \ {t} |-> reg[x]]
  ELSE reg

\* Bus.del on the registry reg: the registry after, found and err.
del(reg, t, f, all) ==
  LET err == validateCallback(f) IN
  IF err # "nil" THEN [reg |-> reg, found |-> FALSE, err |-> err]
  ELSE IF t \notin DOMAIN reg THEN [reg |-> reg, found |-> FALSE, err |-> "nil"]
  ELSE LET r == delLoop(reg[t], 0, ValueOf(f), all, FALSE) IN
       [reg |-> prune([reg EXCEPT ![t] = r.s], t),
        found |-> r.found, err |-> "nil"]

\* The range loop of Purge over the topics of the map. Go visits the keys
\* in an unspecified order; del touches the visited topic alone and its
\* error depends on f alone, so every order gives this result.
RECURSIVE PurgeLoop(_, _, _, _)
PurgeLoop(reg, todo, f, found) ==
  IF todo = {} THEN [reg |-> reg, found |-> found, err |-> "nil"]
  ELSE LET t == CHOOSE x \in todo : TRUE
           d == del(reg, t, f, TRUE)
           fnd == found \/ d.found
       IN IF d.err # "nil"
          THEN [reg |-> d.reg, found |-> fnd, err |-> d.err]
          ELSE PurgeLoop(d.reg, todo \ {t}, f, fnd)

\* Delete without preserving order, i counted from 1:
\* handlers[i] = handlers[len-1]; handlers = handlers[:len-1].
swapRemove_DropLast(s, i) == SubSeq(s, 1, Len(s) - 1)

swapRemove(s, i) == SubSeq([s EXCEPT ![i] = s[Len(s)]], 1, Len(s) - 1)

\* The loop of DeleteHandler(t, id) from index i on: after a removal the
\* loop's i++ steps over the handler moved to index i.
RECURSIVE deleteById(_, _, _)
deleteById(s, i, id) ==
  IF i > Len(s) THEN s
  ELSE IF s[i].Id = id THEN deleteById(swapRemove(s, i), i + 1, id)
  ELSE deleteById(s, i + 1, id)

\* The loop of DeleteHandler(t, name) of the Name/Fun Bus: after a removal
\* i is incremented once more.
RECURSIVE deleteByName(_, _, _)
deleteByName(s, i, name) ==
  IF i > Len(s) THEN s
  ELSE IF s[i].Name = name THEN deleteByName(swapRemove(s, i), i + 2, name)
  ELSE deleteByName(s, i + 1, name)

\* ------------------------------------------------------------------ state

VARIABLES
  callbacks,  \* bus.callbacks: topic -> sequence of reflect.Value
  wmutex,     \* the goroutine inside bus.Lock() or holding it, or NoProc
  readers,    \* the goroutines holding bus.RLock()
  pc,         \* each caller's position in its current call
  call,       \* each caller's current call: name and arguments
  res,        \* what the call returned: found and err
  seen,       \* Fire: bus.callbacks[t] as read by the check of line 71
  rng,        \* Fire: the slice the range loop of line 83 iterates
  gor,        \* Fire: the goroutines launched so far
  wg,         \* Fire: the WaitGroup counter
  Handlers,   \* typed Bus, bus.Handlers: Type -> sequence of Handler
  handlers    \* typed Bus: the slice a call read from bus.Handlers[t]

vars ==
  <<callbacks, wmutex, readers, pc, call, res, seen, rng, gor, wg,
    Handlers, handlers>>

\* NewBus and callers that have not called anything yet.
Init ==
  /\ callbacks = EmptyMap
  /\ wmutex = NoProc
  /\ readers = {}
  /\ pc = [p \in Procs |-> "idle"]
  /\ call = [p \in Procs |-> NoCall]
  /\ res = [p \in Procs |-> NoRes]
  /\ seen = [p \in Procs |-> << >>]
  /\ rng = [p \in Procs |-> << >>]
  /\ gor = [p \in Procs |-> << >>]
  /\ wg = [p \in Procs |-> 0]
  /\ Handlers = EmptyMap
  /\ handlers = [p \in Procs |-> << >>]

\* ---------------------------------------------------------------- helpers

\* A caller is between calls.
Ready(p) == pc[p] \in {"idle", "ret"}

\* Add calls on topic t that hold or await the lock and have not appended.
PendingAdds(t) ==
  Cardinality({q \in Procs : /\ call[q].name = "Add"
                             /\ call[q].t = t
                             /\ pc[q] \in {"lockwait", "cs"}})

\* Topic t can take one more callback without passing max entries.
Room(t, max) == Len(Get(callbacks, t)) + PendingAdds(t) < max

\* A new call starts: the previous call's results are dropped.
Begin(p, name, t, f, args) ==
  /\ Ready(p)
  /\ call' = [call EXCEPT ![p] = [name |-> name, t |-> t, f |-> f, args |-> args]]
  /\ seen' = [seen EXCEPT ![p] = << >>]
  /\ rng' = [rng EXCEPT ![p] = << >>]
  /\ gor' = [gor EXCEPT ![p] = << >>]
  /\ wg' = [wg EXCEPT ![p] = 0]

Return(p, found, err) ==
  /\ pc' = [pc EXCEPT ![p] = "ret"]
  /\ res' = [res EXCEPT ![p] = [found |-> found, err |-> err]]

\* ------------------------------------------------------------ sync.RWMutex

\* bus.Lock(), first half: the caller takes the writers' mutex and announces
\* itself (it blocks while another writer holds or awaits the lock); from
\* here on no new reader is admitted.
Lock_Unguarded(p) ==
  /\ wmutex' = p
  /\ pc' = [pc EXCEPT ![p] = "lockwait"]
  /\ res' = [res EXCEPT ![p] = NoRes]

Lock(p) ==
  /\ wmutex = NoProc
  /\ wmutex' = p
  /\ pc' = [pc EXCEPT ![p] = "lockwait"]
  /\ res' = [res EXCEPT ![p] = NoRes]

\* bus.Lock(), second half: the writer waits for the active readers to leave.
ReadersGone == readers = {}

WAcquire(p) ==
  /\ pc[p] = "lockwait"
  /\ ReadersGone
  /\ pc' = [pc EXCEPT ![p] = "cs"]
  /\ UNCHANGED <<callbacks, wmutex, readers, call, res, seen, rng, gor, wg,
                 Handlers, handlers>>

\* defer bus.Unlock()
Unlock(p) == wmutex' = NoProc

\* bus.RLock(): blocks while a writer holds or awaits the lock.
RLock_Omitted(p) == readers' = readers

RLock(p) ==
  /\ wmutex = NoProc
  /\ readers' = readers \cup {p}

\* defer bus.RUnlock()
RUnlock(p) == readers' = readers \ {p}

\* -------------------------------------------------------------------- Add

\* Add up to and into bus.Lock(): validateCallback runs before the lock is
\* taken, and an invalid callback returns without touching the lock.
AddCall(p, t, f) ==
  /\ Begin(p, "Add", t, f, << >>)
  /\ IF validateCallback(f) # "nil"
     THEN /\ Return(p, FALSE, validateCallback(f))
          /\ UNCHANGED wmutex
     ELSE Lock(p)
  /\ UNCHANGED <<callbacks, readers, Handlers, handlers>>

\* Add inside the lock: append, unlock, return nil.
\* append(callbacks, reflect.ValueOf(f))
append_Front(s, v) == <<v>> \o s

append(s, v) == Append(s, v)

AddBody(p) ==
  /\ pc[p] = "cs"
  /\ call[p].name = "Add"
  /\ LET t == call[p].t IN
     callbacks' = [x \in DOMAIN callbacks \cup {t} |->
                     IF x = t
                     THEN append(Get(callbacks, t), ValueOf(call[p].f))
                     ELSE callbacks[x]]
  /\ Unlock(p)
  /\ Return(p, FALSE, "nil")
  /\ UNCHANGED <<readers, call, seen, rng, gor, wg, Handlers, handlers>>

\* ------------------------------------------------- Delete, DeleteAll, Purge

DeleteCall(p, t, f) ==
  /\ Begin(p, "Delete", t, f, << >>)
  /\ Lock(p)
  /\ UNCHANGED <<callbacks, readers, Handlers, handlers>>

DeleteBody(p) ==
  /\ pc[p] = "cs"
  /\ call[p].name = "Delete"
  /\ LET d == del(callbacks, call[p].t, call[p].f, FALSE) IN
     /\ callbacks' = d.reg
     /\ Return(p, d.found, d.err)
  /\ Unlock(p)
  /\ UNCHANGED <<readers, call, seen, rng, gor, wg, Handlers, handlers>>

DeleteAllCall(p, t, f) ==
  /\ Begin(p, "DeleteAll", t, f, << >>)
  /\ Lock(p)
  /\ UNCHANGED <<callbacks, readers, Handlers, handlers>>

DeleteAllBody(p) ==
  /\ pc[p] = "cs"
  /\ call[p].name = "DeleteAll"
  /\ LET d == del(callbacks, call[p].t, call[p].f, TRUE) IN
     /\ callbacks' = d.reg
     /\ Return(p, d.found, d.err)
  /\ Unlock(p)
  /\ UNCHANGED <<readers, call, seen, rng, gor, wg, Handlers, handlers>>

PurgeCall(p, f) ==
  /\ Begin(p, "Purge", "-", f, << >>)
  /\ Lock(p)
  /\ UNCHANGED <<callbacks, readers, Handlers, handlers>>

PurgeBody(p) ==
  /\ pc[p] = "cs"
  /\ call[p].name = "Purge"
  /\ LET d == PurgeLoop(callbacks, DOMAIN callbacks, call[p].f, FALSE) IN
     /\ callbacks' = d.reg
     /\ Return(p, d.found, d.err)
  /\ Unlock(p)
  /\ UNCHANGED <<readers, call, seen, rng, gor, wg, Handlers, handlers>>

\* ------------------------------------------------------------------ Reset

ResetCall(p) ==
  /\ Begin(p, "Reset", "-", "-", << >>)
  /\ Lock(p)
  /\ UNCHANGED <<callbacks, readers, Handlers, handlers>>

\* The map Reset installs: make(map[string][]reflect.Value).
NewCallbacks_Kept == callbacks

NewCallbacks == EmptyMap

ResetBody(p) ==
  /\ pc[p] = "cs"
  /\ call[p].name = "Reset"
  /\ callbacks' = NewCallbacks
  /\ Unlock(p)
  /\ Return(p, FALSE, "nil")
  /\ UNCHANGED <<readers, call, seen, rng, gor, wg, Handlers, handlers>>

\* ------------------------------------------------------------------- Fire

\* Fire up to and through bus.RLock().
FireCall(p, t, args) ==
  /\ Begin(p, "Fire", t, "-", args)
  /\ RLock(p)
  /\ pc' = [pc EXCEPT ![p] = "check"]
  /\ res' = [res EXCEPT ![p] = NoRes]
  /\ UNCHANGED <<callbacks, wmutex, Handlers, handlers>>

\* if _, ok := bus.callbacks[t]; !ok { return }
FireCheck(p) ==
  /\ pc[p] = "check"
  /\ seen' = [seen EXCEPT ![p] = Get(callbacks, call[p].t)]
  /\ IF call[p].t \notin DOMAIN callbacks
     THEN /\ RUnlock(p)
          /\ Return(p, FALSE, "nil")
     ELSE /\ pc' = [pc EXCEPT ![p] = "range"]
          /\ UNCHANGED <<readers, res>>
  /\ UNCHANGED <<callbacks, wmutex, call, rng, gor, wg, Handlers, handlers>>

\* argVals: the boxed arguments every goroutine of this Fire shares.
argVals_Empty(p) == << >>

argVals(p) == BoxAll(call[p].args)

\* The range expression bus.callbacks[t] is evaluated once.
FireRange(p) ==
  /\ pc[p] = "range"
  /\ rng' = [rng EXCEPT ![p] = Get(callbacks, call[p].t)]
  /\ pc' = [pc EXCEPT ![p] = "spawn"]
  /\ UNCHANGED <<callbacks, wmutex, readers, call, res, seen, gor, wg,
                 Handlers, handlers>>

\* One iteration of the range loop: wg.Add(1) and go func(c).
FireSpawn(p) ==
  /\ pc[p] = "spawn"
  /\ Len(gor[p]) < Len(rng[p])
  /\ wg' = [wg EXCEPT ![p] = @ + 1]
  /\ gor' = [gor EXCEPT ![p] =
               Append(@, [c |-> rng[p][Len(gor[p]) + 1],
                          st |-> "spawned", got |-> << >>])]
  /\ UNCHANGED <<callbacks, wmutex, readers, pc, call, res, seen, rng,
                 Handlers, handlers>>

\* reflect.Value.Call binds the arguments in to the parameters of c: a
\* variadic func(...interface{}) takes any list, a func() only the empty one.
Accepts(c, in) == c.ptr = NullaryFunc => Len(in) = 0

\* c.Call(argVals): the callback starts running with the unboxed arguments.
CallbackCall(p, i) ==
  /\ i \in 1..Len(gor[p])
  /\ gor[p][i].st = "spawned"
  /\ Accepts(gor[p][i].c, argVals(p))
  /\ gor' = [gor EXCEPT ![p][i] =
               [@ EXCEPT !.st = "running", !.got = UnboxAll(argVals(p))]]
  /\ UNCHANGED <<callbacks, wmutex, readers, pc, call, res, seen, rng, wg,
                 Handlers, handlers>>

\* The callback returns and the deferred wg.Done() runs.
CallbackReturn(p, i) ==
  /\ i \in 1..Len(gor[p])
  /\ gor[p][i].st = "running"
  /\ gor' = [gor EXCEPT ![p][i].st = "returned"]
  /\ wg' = [wg EXCEPT ![p] = @ - 1]
  /\ UNCHANGED <<callbacks, wmutex, readers, pc, call, res, seen, rng,
                 Handlers, handlers>>

\* c.Call(argVals) panics because the arguments do not fit c; the goroutine
\* unwinds, running the deferred wg.Done().
CallbackPanic(p, i) ==
  /\ i \in 1..Len(gor[p])
  /\ gor[p][i].st = "spawned"
  /\ ~Accepts(gor[p][i].c, argVals(p))
  /\ gor' = [gor EXCEPT ![p][i].st = "panicked"]
  /\ wg' = [wg EXCEPT ![p] = @ - 1]
  /\ UNCHANGED <<callbacks, wmutex, readers, pc, call, res, seen, rng,
                 Handlers, handlers>>

\* What the end of the process makes of a goroutine: one not yet at its
\* callback never invokes it, one inside its callback is cut short.
Killed(g) ==
  [g EXCEPT !.st = IF g.st = "spawned" THEN "killed"
                   ELSE IF g.st = "running" THEN "aborted"
                   ELSE g.st]

\* Nothing recovers the panic of goroutine i: the Go runtime ends the
\* process, and with it every goroutine and every caller.
fatalpanic(p, i) ==
  /\ i \in 1..Len(gor[p])
  /\ gor[p][i].st = "panicked"
  /\ \E q \in Procs : pc[q] # "dead"
  /\ pc' = [q \in Procs |-> "dead"]
  /\ gor' = [q \in Procs |-> [j \in 1..Len(gor[q]) |-> Killed(gor[q][j])]]
  /\ UNCHANGED <<callbacks, wmutex, readers, call, res, seen, rng, wg,
                 Handlers, handlers>>

\* wg.Wait()
Wait_Skipped(p) == TRUE

Wait(p) == wg[p] = 0

\* The loop is over: wg.Wait(), then the deferred RUnlock, then return.
FireWait(p) ==
  /\ pc[p] = "spawn"
  /\ Len(gor[p]) = Len(rng[p])
  /\ Wait(p)
  /\ RUnlock(p)
  /\ Return(p, FALSE, "nil")
  /\ UNCHANGED <<callbacks, wmutex, call, seen, rng, gor, wg,
                 Handlers, handlers>>

\* -------------------------------------------------------------- typed Bus

\* AddHandler, from Lock to the deferred Unlock.
AddHandler(p, t, h) ==
  /\ Begin(p, "AddHandler", t, h, << >>)
  /\ handlers' = [handlers EXCEPT ![p] = Get(Handlers, t)]
  /\ Handlers' = [x \in DOMAIN Handlers \cup {t} |->
                    IF x = t THEN Append(Get(Handlers, t), h) ELSE Handlers[x]]
  /\ Return(p, FALSE, "nil")
  /\ UNCHANGED <<callbacks, wmutex, readers>>

\* DeleteHandler of the Id/Callback Bus, from Lock to the deferred Unlock.
DeleteHandler(p, t, id) ==
  /\ Begin(p, "DeleteHandler", t, id, << >>)
  /\ handlers' = [handlers EXCEPT ![p] = Get(Handlers, t)]
  /\ Handlers' = IF t \notin DOMAIN Handlers
                 THEN Handlers
                 ELSE [Handlers EXCEPT ![t] = deleteById(@, 1, id)]
  /\ Return(p, FALSE, "nil")
  /\ UNCHANGED <<callbacks, wmutex, readers>>

\* DeleteHandler of the Name/Fun Bus, from Lock to the deferred Unlock.
DeleteHandlerNamed(p, t, name) ==
  /\ Begin(p, "DeleteHandler", t, name, << >>)
  /\ handlers' = [handlers EXCEPT ![p] = Get(Handlers, t)]
  /\ Handlers' = IF t \notin DOMAIN Handlers
                 THEN Handlers
                 ELSE [Handlers EXCEPT ![t] = deleteByName(@, 1, name)]
  /\ Return(p, FALSE, "nil")
  /\ UNCHANGED <<callbacks, wmutex, readers>>

\* Fire of the Name/Fun Bus up to its presence check; it takes no lock.
NamedFire(p, t) ==
  /\ Begin(p, "Fire", t, "-", << >>)
  /\ handlers' = [handlers EXCEPT ![p] = Get(Handlers, t)]
  /\ IF t \notin DOMAIN Handlers
     THEN Return(p, FALSE, "nil")
     ELSE /\ pc' = [pc EXCEPT ![p] = "wgadd"]
          /\ res' = [res EXCEPT ![p] = NoRes]
  /\ UNCHANGED <<callbacks, wmutex, readers, Handlers>>

\* wg.Add(len(handlers))
NamedFireAdd(p) ==
  /\ pc[p] = "wgadd"
  /\ wg' = [wg EXCEPT ![p] = Len(handlers[p])]
  /\ pc' = [pc EXCEPT ![p] = "go"]
  /\ UNCHANGED <<callbacks, wmutex, readers, call, res, seen, rng, gor,
                 Handlers, handlers>>

\* One iteration of the range loop: go handler.Fun(e).
NamedFireGo(p) ==
  /\ pc[p] = "go"
  /\ Len(gor[p]) < Len(handlers[p])
  /\ gor' = [gor EXCEPT ![p] =
               Append(@, [c |-> handlers[p][Len(gor[p]) + 1],
                          st |-> "spawned", got |-> << >>])]
  /\ UNCHANGED <<callbacks, wmutex, readers, pc, call, res, seen, rng, wg,
                 Handlers, handlers>>

\* The goroutine starts handler.Fun(e).
HandlerCall(p, i) ==
  /\ i \in 1..Len(gor[p])
  /\ gor[p][i].st = "spawned"
  /\ gor' = [gor EXCEPT ![p][i] = [@ EXCEPT !.st = "running",
                                             !.got = <<call[p].t>>]]
  /\ UNCHANGED <<callbacks, wmutex, readers, pc, call, res, seen, rng, wg,
                 Handlers, handlers>>

\* handler.Fun(e) returns and its goroutine ends; nothing calls wg.Done().
HandlerReturn(p, i) ==
  /\ i \in 1..Len(gor[p])
  /\ gor[p][i].st = "running"
  /\ gor' = [gor EXCEPT ![p][i].st = "returned"]
  /\ UNCHANGED <<callbacks, wmutex, readers, pc, call, res, seen, rng, wg,
                 Handlers, handlers>>

\* wg.Wait() and the return of Fire.
NamedFireWait(p) ==
  /\ pc[p] = "go"
  /\ Len(gor[p]) = Len(handlers[p])
  /\ Wait(p)
  /\ Return(p, FALSE, "nil")
  /\ UNCHANGED <<callbacks, wmutex, readers, call, seen, rng, gor, wg,
                 Handlers, handlers>>

\* --------------------------------------------------------- specifications

\* AddHandler, offered while the type holds fewer than max handlers.
AddHandlerWithin(p, t, h, max) ==
  /\ Len(Get(Handlers, t)) < max
  /\ AddHandler(p, t, h)

\* One goroutine adds and deletes handlers of the Id/Callback Bus.
NextTyped ==
  \/ \E t \in Types, h \in IdHandlers :
       AddHandlerWithin(Firer, t, h, MaxHandlers)
  \/ \E t \in Types, id \in Ids : DeleteHandler(Firer, t, id)

SpecTyped == Init /\ [][NextTyped]_vars

\* One goroutine adds and deletes handlers of the Name/Fun Bus and fires.
NextNamed ==
  \/ \E t \in Types, h \in NamedHandlers :
       AddHandlerWithin(Firer, t, h, MaxHandlers)
  \/ \E t \in Types, h \in NamedHandlers :
       DeleteHandlerNamed(Firer, t, h.Name)
  \/ \E t \in Types : NamedFire(Firer, t)
  \/ NamedFireAdd(Firer)
  \/ NamedFireGo(Firer)
  \/ \E i \in 1..MaxHandlers : HandlerCall(Firer, i)
  \/ \E i \in 1..MaxHandlers : HandlerReturn(Firer, i)
  \/ NamedFireWait(Firer)

SpecNamed == Init /\ [][NextNamed]_vars


\* Add, offered while the topic holds fewer than max callbacks.
AddWithin(p, t, f, max) ==
  /\ validateCallback(f) = "nil" => Room(t, max)
  /\ AddCall(p, t, f)

\* The registry calls of the goroutines ps, with callbacks drawn from vals.
Mutate(ps, vals, max) ==
  \/ \E p \in ps, t \in Topics, f \in vals : AddWithin(p, t, f, max)
  \/ \E p \in ps, t \in Topics, f \in vals : DeleteCall(p, t, f)
  \/ \E p \in ps, t \in Topics, f \in vals : DeleteAllCall(p, t, f)
  \/ \E p \in ps, f \in vals : PurgeCall(p, f)
  \/ \E p \in ps : ResetCall(p)
  \/ \E p \in ps : WAcquire(p)
  \/ \E p \in ps : AddBody(p)
  \/ \E p \in ps : DeleteBody(p)
  \/ \E p \in ps : DeleteAllBody(p)
  \/ \E p \in ps : PurgeBody(p)
  \/ \E p \in ps : ResetBody(p)

\* The Fire calls of the goroutines ps and the callbacks they launch.
Dispatch(ps, lists, max) ==
  \/ \E p \in ps, t \in Topics, a \in lists : FireCall(p, t, a)
  \/ \E p \in ps : FireCheck(p)
  \/ \E p \in ps : FireRange(p)
  \/ \E p \in ps : FireSpawn(p)
  \/ \E p \in ps, i \in 1..max : CallbackCall(p, i)
  \/ \E p \in ps, i \in 1..max : CallbackReturn(p, i)
  \/ \E p \in ps : FireWait(p)

\* One goroutine calls the Bus, one call after the other, with any value.
Next == Mutate({Firer}, Values, MaxLen) \/ Dispatch({Firer}, ArgLists, MaxLen)

Spec == Init /\ [][Next]_vars

\* One goroutine fires while another one mutates the registry.
NextConc ==
  \/ Mutate({Mutator}, TypedValues, MaxLenConc)
  \/ Dispatch({Firer}, {TestArgs}, MaxLenConc)

SpecConc == Init /\ [][NextConc]_vars

\* One goroutine registers a func() and a variadic callback and fires with
\* and without arguments.
NextArity ==
  \/ Mutate({Firer}, {NullaryFunc, "f1"}, MaxLenConc)
  \/ Dispatch({Firer}, ArgLists, MaxLenConc)
  \/ \E i \in 1..MaxLenConc : CallbackPanic(Firer, i)
  \/ \E i \in 1..MaxLenConc : fatalpanic(Firer, i)

SpecArity == Init /\ [][NextArity]_vars

\* A callback that calls the Bus is running in a goroutine of p's Fire and
\* has not made its call yet; q stands for the goroutine it runs in.
InCallback(p, q) ==
  /\ pc[q] = "idle"
  /\ \E i \in 1..Len(gor[p]) :
       gor[p][i].st = "running" /\ gor[p][i].c.ptr = NestFunc

\* Who may call the Bus: the caller p at any time, q from inside a callback.
MayCall(r, p, q) == r = p \/ (r = q /\ InCallback(p, q))

NestedAdd(r, p, q, t, f) == MayCall(r, p, q) /\ AddWithin(r, t, f, MaxLenConc)

NestedDelete(r, p, q, t, f) == MayCall(r, p, q) /\ DeleteCall(r, t, f)

NestedDeleteAll(r, p, q, t, f) == MayCall(r, p, q) /\ DeleteAllCall(r, t, f)

NestedPurge(r, p, q, f) == MayCall(r, p, q) /\ PurgeCall(r, f)

NestedReset(r, p, q) == MayCall(r, p, q) /\ ResetCall(r)

\* A callback that does not call the Bus returns.
PlainReturn(p, i) ==
  /\ i \in 1..Len(gor[p])
  /\ gor[p][i].c.ptr # NestFunc
  /\ CallbackReturn(p, i)

\* A callback that called the Bus returns once its call has returned; the
\* deferred wg.Done() runs.
NestReturn(p, i, q) ==
  /\ i \in 1..Len(gor[p])
  /\ gor[p][i].st = "running"
  /\ gor[p][i].c.ptr = NestFunc
  /\ pc[q] = "ret"
  /\ gor' = [gor EXCEPT ![p][i].st = "returned"]
  /\ wg' = [wg EXCEPT ![p] = @ - 1]
  /\ pc' = [pc EXCEPT ![q] = "idle"]
  /\ UNCHANGED <<callbacks, wmutex, readers, call, res, seen, rng,
                 Handlers, handlers>>

\* What a caller or a callback may pass as a callback in the nested runs.
NestedValues == {NestFunc, "f1", StrValue}

\* One goroutine calls the Bus; the callbacks it registers call the Bus
\* again while Fire executes them.
NextNested ==
  \/ \E r \in Procs, t \in Topics, f \in NestedValues :
       NestedAdd(r, Firer, Mutator, t, f)
  \/ \E r \in Procs, t \in Topics, f \in NestedValues :
       NestedDelete(r, Firer, Mutator, t, f)
  \/ \E r \in Procs, t \in Topics, f \in NestedValues :
       NestedDeleteAll(r, Firer, Mutator, t, f)
  \/ \E r \in Procs, f \in NestedValues : NestedPurge(r, Firer, Mutator, f)
  \/ \E r \in Procs : NestedReset(r, Firer, Mutator)
  \/ \E r \in Procs : WAcquire(r)
  \/ \E r \in Procs : AddBody(r)
  \/ \E r \in Procs : DeleteBody(r)
  \/ \E r \in Procs : DeleteAllBody(r)
  \/ \E r \in Procs : PurgeBody(r)
  \/ \E r \in Procs : ResetBody(r)
  \/ \E t \in Topics : FireCall(Firer, t, TestArgs)
  \/ FireCheck(Firer)
  \/ FireRange(Firer)
  \/ FireSpawn(Firer)
  \/ \E i \in 1..MaxLenConc : CallbackCall(Firer, i)
  \/ \E i \in 1..MaxLenConc : PlainReturn(Firer, i)
  \/ \E i \in 1..MaxLenConc : NestReturn(Firer, i, Mutator)
  \/ FireWait(Firer)

SpecNested == Init /\ [][NextNested]_vars

\* The topic each goroutine keeps to when the goroutines work on pairwise
\* disjoint topics.
TopicOf(p) == IF p = Firer THEN "T" ELSE "U"

\* The Add, Delete and DeleteAll calls of goroutine p on topic t.
MutateTopic(p, t, vals, max) ==
  \/ \E f \in vals : AddWithin(p, t, f, max)
  \/ \E f \in vals : DeleteCall(p, t, f)
  \/ \E f \in vals : DeleteAllCall(p, t, f)
  \/ WAcquire(p)
  \/ AddBody(p)
  \/ DeleteBody(p)
  \/ DeleteAllBody(p)

\* Two goroutines add and delete concurrently, each on its own topic.
NextDisjoint == \E p \in Procs : MutateTopic(p, TopicOf(p), Funcs, MaxLenConc)

SpecDisjoint == Init /\ [][NextDisjoint]_vars

\* One goroutine only adds, to a Bus fresh from NewBus.
NextAdd ==
  \/ \E t \in Topics, f \in Values : AddWithin(Firer, t, f, MaxLen)
  \/ WAcquire(Firer)
  \/ AddBody(Firer)

SpecAdd == Init /\ [][NextAdd]_vars

\* ------------------------------------------------------ notions of claims

\* The indices of s that hold v.
Occ(s, v) == {i \in 1..Len(s) : s[i] = v}

\* How many entries of s equal v.
CountIn(s, v) == Cardinality(Occ(s, v))

\* s with the entry at index k left out, the others in their order.
WithoutIndex(s, k) ==
  [i \in 1..(Len(s) - 1) |-> IF i < k THEN s[i] ELSE s[i + 1]]

Least(S) == CHOOSE x \in S : \A y \in S : x <= y

\* The boxed function values a registry can hold.
FuncVals == {ValueOf(f) : f \in Funcs}

\* The step with which p's call of the given name leaves the lock.
Leaves(p, name) ==
  /\ pc[p] = "cs"
  /\ pc'[p] = "ret"
  /\ call[p].name = name

\* p's current or last call is the given one.
Did(p, name) == pc[p] = "ret" /\ call[p].name = name

\* The callback invocations of p's Fire that have started with value v.
Invoked(p, v) ==
  Cardinality({i \in 1..Len(gor[p]) : gor[p][i].c = v /\ gor[p][i].st # "spawned"})

\* ------------------------------------------------------------------ claims

\* C1: a Fire call returns only after every callback invocation it launched
\* has returned: in no state has Fire returned while one of its goroutines
\* is still to run or running.
C1_FireJoinsCallbacks ==
  \A p \in Procs :
    Did(p, "Fire") =>
      /\ Len(gor[p]) = Len(rng[p])
      /\ \A i \in 1..Len(gor[p]) : gor[p][i].st = "returned"

\* A Fire over two callbacks has returned.
C1_Witness ==
  \E p \in Procs : Did(p, "Fire") /\ Len(gor[p]) >= 2

\* C2: Fire invokes each entry of the topic's sequence exactly once, each
\* with exactly the argument list passed to Fire: a callback registered k
\* times under the topic is invoked k times, one registered only elsewhere
\* is not invoked.
C2_FireInvokesEachOnce ==
  \A p \in Procs :
    call[p].name = "Fire" =>
      /\ \A i \in 1..Len(gor[p]) :
           gor[p][i].st # "spawned" => gor[p][i].got = call[p].args
      /\ \A v \in FuncVals : Invoked(p, v) <= CountIn(seen[p], v)
      /\ pc[p] = "ret" =>
           \A v \in FuncVals : Invoked(p, v) = CountIn(seen[p], v)

\* Fire("T", 1, "test", false) has returned where f1 was registered twice
\* under T and f2 under another topic only.
C2_Witness ==
  \E p \in Procs, t \in Topics, u \in Topics :
    /\ Did(p, "Fire")
    /\ call[p].t = t
    /\ call[p].args = TestArgs
    /\ u # t
    /\ CountIn(seen[p], ValueOf("f1")) = 2
    /\ CountIn(seen[p], ValueOf("f2")) = 0
    /\ CountIn(Get(callbacks, u), ValueOf("f2")) >= 1

\* C3: Delete(topic, c) with c a function removes the lowest-index entry
\* equal to c and nothing else, keeps the other entries in their order and
\* returns true; when the topic holds no entry equal to c it returns false
\* with no error and changes nothing.
C3_DeleteRemovesFirst ==
  [][\A p \in Procs :
       (Leaves(p, "Delete") /\ call[p].f \in Funcs) =>
         LET t == call[p].t
             s == Get(callbacks, t)
             hits == Occ(s, ValueOf(call[p].f))
         IN IF hits # {}
            THEN /\ Get(callbacks', t) = WithoutIndex(s, Least(hits))
                 /\ res'[p] = [found |-> TRUE, err |-> "nil"]
            ELSE /\ callbacks' = callbacks
                 /\ res'[p] = [found |-> FALSE, err |-> "nil"]]_vars

\* Delete returned true and the topic still holds a later occurrence of the
\* callback behind another callback.
C3_Witness ==
  \E p \in Procs :
    /\ Did(p, "Delete")
    /\ res[p].found
    /\ LET s == Get(callbacks, call[p].t) IN
       /\ Len(s) = 2
       /\ s[1] # ValueOf(call[p].f)
       /\ s[2] = ValueOf(call[p].f)

\* C4: after DeleteAll(topic, c) returns, the topic holds no entry equal to
\* c, wherever c's occurrences were, and every other entry is still there.
C4_DeleteAllRemovesAll ==
  [][\A p \in Procs :
       (Leaves(p, "DeleteAll") /\ call[p].f \in Funcs) =>
         LET t == call[p].t
             v == ValueOf(call[p].f)
         IN /\ CountIn(Get(callbacks', t), v) = 0
            /\ \A w \in FuncVals \ {v} :
                 CountIn(Get(callbacks', t), w) = CountIn(Get(callbacks, t), w)]_vars

\* C5: after Purge(c) returns no topic holds an entry equal to c, and Purge
\* returns true exactly when it removed an entry.
C5_PurgeRemovesEverywhere ==
  [][\A p \in Procs :
       (Leaves(p, "Purge") /\ call[p].f \in Funcs) =>
         /\ \A t \in DOMAIN callbacks' :
              CountIn(callbacks'[t], ValueOf(call[p].f)) = 0
         /\ res'[p].found <=> (callbacks' # callbacks)]_vars

\* C6: every topic key present in the registry maps to a sequence holding
\* at least one callback.
C6_NoEmptyTopic ==
  \A t \in DOMAIN callbacks : Len(callbacks[t]) >= 1

\* A Delete removed the only callback of its topic, and the topic is gone
\* while another topic remains.
C6_Witness ==
  \E p \in Procs :
    /\ Did(p, "Delete")
    /\ res[p].found
    /\ call[p].t \notin DOMAIN callbacks
    /\ DOMAIN callbacks # {}

\* C7: while a callback launched by Fire(T) is executing, an Add, Delete or
\* DeleteAll on another topic U can run to completion without waiting for
\* that callback: a mutator that has called Lock is not held back by it.
C7_MutatorNotBlockedByCallback ==
  \A p \in Procs, q \in Procs :
    ( /\ call[p].name = "Fire"
      /\ p \in readers
      /\ \E i \in 1..Len(gor[p]) : gor[p][i].st = "running"
      /\ call[q].name \in {"Add", "Delete", "DeleteAll"}
      /\ call[q].t # call[p].t
      /\ pc[q] = "lockwait" )
    => ENABLED WAcquire(q)

\* C8: the callbacks one Fire invokes are exactly the topic's sequence as
\* that Fire read it: calls of other goroutines made while the Fire is in
\* flight neither add an invocation to it nor cancel one.
C8_FireUsesItsSnapshot ==
  \A p \in Procs :
    (call[p].name = "Fire" /\ pc[p] \in {"spawn", "ret"}) =>
      /\ rng[p] = seen[p]
      /\ Len(gor[p]) <= Len(seen[p])
      /\ \A i \in 1..Len(gor[p]) : gor[p][i].c = seen[p][i]
      /\ pc[p] = "ret" =>
           /\ Len(gor[p]) = Len(seen[p])
           /\ \A i \in 1..Len(gor[p]) : gor[p][i].st = "returned"

\* A callback of a Fire is running while another goroutine has called
\* Delete for that callback on the same topic.
C8_Witness ==
  \E p \in Procs, q \in Procs :
    /\ call[p].name = "Fire"
    /\ pc[p] = "spawn"
    /\ \E i \in 1..Len(gor[p]) :
         gor[p][i].st = "running" /\ gor[p][i].c = ValueOf(call[q].f)
    /\ call[q].name = "Delete"
    /\ call[q].t = call[p].t
    /\ pc[q] = "lockwait"

\* C9: Delete, DeleteAll and Purge called with a value of a kind other than
\* func return an error in every registry state, the empty registry and the
\* absent topic included, and leave the registry unchanged.
C9_InvalidRemovalIsError ==
  [][\A p \in Procs :
       ( /\ \/ Leaves(p, "Delete")
            \/ Leaves(p, "DeleteAll")
            \/ Leaves(p, "Purge")
         /\ TypeOf(call[p].f) \notin {"func", "nilType"} )
       => /\ res'[p].err = "error"
          /\ callbacks' = callbacks]_vars

\* C10: Add(topic, v) with v of a kind other than func (a string) returns
\* an error and leaves the registry unchanged: it never goes on to create a
\* topic or append an entry.
C10_InvalidAddIsError ==
  [][\A p \in Procs :
       ( /\ call'[p].name = "Add"
         /\ TypeOf(call'[p].f) \notin {"func", "nilType"}
         /\ (pc'[p] # pc[p] \/ call'[p] # call[p]) )
       => /\ pc'[p] = "ret"
          /\ res'[p].err = "error"
          /\ callbacks' = callbacks]_vars

\* Add(t, "invalid") returned its error on a registry that holds another
\* topic and not t.
C10_Witness ==
  \E p \in Procs :
    /\ Did(p, "Add")
    /\ call[p].f = StrValue
    /\ res[p].err = "error"
    /\ call[p].t \notin DOMAIN callbacks
    /\ DOMAIN callbacks # {}

\* The registry reg cut down to topic t.
Alone(reg, t) == [x \in DOMAIN reg \cap {t} |-> reg[x]]

\* C11: when Add, Delete and DeleteAll run concurrently on pairwise disjoint
\* topics, every call changes its topic as it would with that topic alone
\* in the registry and leaves the other topics as they are, nothing else
\* changes the registry (so no addition is lost), and no two mutating calls
\* are inside the critical section together.
C11_DisjointTopicsIndependent ==
  [][/\ Cardinality({p \in Procs : pc'[p] = "cs"}) <= 1
     /\ \A p \in Procs :
          LET t == call[p].t
              own == Alone(callbacks, t)
          IN /\ Leaves(p, "Add") =>
                  Get(callbacks', t) = Append(Get(own, t), ValueOf(call[p].f))
             /\ Leaves(p, "Delete") =>
                  Get(callbacks', t) = Get(del(own, t, call[p].f, FALSE).reg, t)
             /\ Leaves(p, "DeleteAll") =>
                  Get(callbacks', t) = Get(del(own, t, call[p].f, TRUE).reg, t)
             /\ pc[p] = "cs" =>
                  \A u \in Topics \ {t} : Alone(callbacks', u) = Alone(callbacks, u)
     /\ (\A p \in Procs : pc[p] # "cs") => callbacks' = callbacks]_vars

\* One goroutine is inside Add on its topic while the other has just
\* deleted from its own topic, which still holds a callback.
C11_Witness ==
  \E p \in Procs, q \in Procs :
    /\ pc[p] = "cs"
    /\ call[p].name = "Add"
    /\ Len(Get(callbacks, call[p].t)) >= 1
    /\ Did(q, "Delete")
    /\ res[q].found
    /\ call[q].t # call[p].t
    /\ Len(Get(callbacks, call[q].t)) >= 1

\* C12: when Reset returns the registry holds no topic; it stays without
\* topics until an Add returns; and while it holds no topic no Fire
\* launches or invokes a callback, whatever topic it is called with.
C12_ResetEmptiesRegistry ==
  [][/\ \A p \in Procs : Leaves(p, "Reset") => DOMAIN callbacks' = {}
     /\ (DOMAIN callbacks = {} /\ \A p \in Procs : ~Leaves(p, "Add"))
          => DOMAIN callbacks' = {}
     /\ DOMAIN callbacks = {}
          => \A p \in Procs : gor'[p] = gor[p] \/ gor'[p] = << >>]_vars

\* Reset has returned, no Add has followed it, and a Fire called since
\* is past RLock and about to look its topic up.
C12_Witness ==
  /\ Did(Mutator, "Reset")
  /\ DOMAIN callbacks = {}
  /\ pc[Firer] = "check"
  /\ call[Firer].name = "Fire"

\* C13: on a Bus that has only seen Add calls since NewBus, every successful
\* Add(t, f) puts f after the callbacks the topic already holds and changes
\* no other topic, an Add that fails changes nothing, and nothing else
\* changes the registry: each topic holds the callbacks added to it, in call
\* order and as often as they were added, and only topics added to exist.
C13_AddKeepsCallOrder ==
  [][/\ \A p \in Procs :
          Leaves(p, "Add") =>
            /\ DOMAIN callbacks' = DOMAIN callbacks \cup {call[p].t}
            /\ callbacks'[call[p].t] =
                 Get(callbacks, call[p].t) \o <<ValueOf(call[p].f)>>
            /\ \A u \in DOMAIN callbacks \ {call[p].t} :
                 callbacks'[u] = callbacks[u]
            /\ res'[p].err = "nil"
     /\ (\A p \in Procs : ~Leaves(p, "Add")) => callbacks' = callbacks]_vars

\* The same callback sits twice in a topic, around another one, and a
\* second topic holds a callback too.
C13_Witness ==
  /\ Did(Firer, "Add")
  /\ res[Firer].err = "nil"
  /\ Get(callbacks, "T") = <<ValueOf("f1"), ValueOf("f2"), ValueOf("f1")>>
  /\ Get(callbacks, "U") = <<ValueOf("f2")>>

\* C14: a Fire that finds no callback under its topic, because the topic
\* was never added to or because its callbacks have all been removed,
\* returns from its presence check: with no error, with no callback
\* launched or invoked, and with the registry as it was.
C14_FireOnEmptyTopicIsNoOp ==
  [][\A p \in Procs :
       (/\ call[p].name = "Fire"
        /\ pc[p] = "check"
        /\ pc'[p] # "check"
        /\ Len(Get(callbacks, call[p].t)) = 0)
       => /\ pc'[p] = "ret"
          /\ res'[p].err = "nil"
          /\ gor'[p] = << >>
          /\ wg'[p] = 0
          /\ callbacks' = callbacks]_vars

\* Fire has returned from a topic without callbacks while the other topic
\* holds some.
C14_Witness ==
  \E p \in Procs :
    /\ Did(p, "Fire")
    /\ call[p].args = TestArgs
    /\ call[p].t \notin DOMAIN callbacks
    /\ seen[p] = << >>
    /\ gor[p] = << >>
    /\ res[p].err = "nil"
    /\ \E u \in DOMAIN callbacks : Len(callbacks[u]) >= 2

\* C15: when the arguments of Fire do not fit one of the topic's callbacks,
\* the fault stays with that callback: the process goes on, no other
\* goroutine of the Fire is ended before or inside its callback, and once
\* Fire has returned every callback the arguments fit has been invoked and
\* has returned.
C15_BindingFaultConfined ==
  \A p \in Procs :
    (\E i \in 1..Len(gor[p]) : gor[p][i].st = "panicked")
    => /\ pc[p] # "dead"
       /\ \A j \in 1..Len(gor[p]) : gor[p][j].st \notin {"killed", "aborted"}
       /\ pc[p] = "ret" =>
            \A j \in 1..Len(gor[p]) :
              Accepts(gor[p][j].c, argVals(p)) => gor[p][j].st = "returned"

\* C17: a callback that calls Add, Delete, DeleteAll, Purge or Reset on its
\* Bus while Fire executes it does not deadlock: as long as a call is
\* under way, that of the callback or the enclosing Fire, some step of the
\* program can be taken.
C17_NestedCallCompletes ==
  (\E p \in Procs : pc[p] \notin {"idle", "ret"}) => ENABLED NextNested

\* C20: the return of Add, Delete or DeleteAll on a topic leaves every other
\* topic in the registry, or out of it, with the callbacks it had, and no
\* step of a Fire call changes the registry at all.
C20_OtherTopicsUntouched ==
  [][\A p \in Procs :
       /\ (Leaves(p, "Add") \/ Leaves(p, "Delete") \/ Leaves(p, "DeleteAll"))
            => \A u \in Topics \ {call[p].t} :
                 Alone(callbacks', u) = Alone(callbacks, u)
       /\ (call[p].name = "Fire" /\ pc[p] # "ret") => callbacks' = callbacks
       /\ call'[p].name = "Fire" => callbacks' = callbacks]_vars

\* Delete has emptied and dropped one topic while the other one keeps its
\* three callbacks.
C20_Witness ==
  \E p \in Procs :
    /\ Did(p, "Delete")
    /\ res[p].found
    /\ call[p].t \notin DOMAIN callbacks
    /\ \E u \in DOMAIN callbacks : Len(callbacks[u]) = MaxLen

\* The handlers a slice holds.
HandlerSet(s) == {s[i] : i \in DOMAIN s}

\* No two entries of the slice have the same id.
DistinctIds(s) == \A i, j \in DOMAIN s : s[i].Id = s[j].Id => i = j

\* C16: in the typed Bus with Id and Callback, AddHandler puts its handler
\* behind those the type holds, and when the handlers of a type have
\* pairwise distinct ids, DeleteHandler(t, id) leaves, each once, exactly
\* the handlers with another id: the handlers left after any sequence of
\* such deletions are those added and never deleted.
C16_DeleteHandlerRemovesItsId ==
  \A p \in Procs :
    LET t == call[p].t
        old == handlers[p]
    IN /\ Did(p, "AddHandler") => Handlers[t] = Append(old, call[p].f)
       /\ (Did(p, "DeleteHandler") /\ t \in DOMAIN Handlers /\ DistinctIds(old))
            => /\ HandlerSet(Handlers[t]) =
                    {h \in HandlerSet(old) : h.Id # call[p].f}
               /\ DistinctIds(Handlers[t])

\* DeleteHandler found three handlers with three ids under the type, was
\* given the id of the first and has left the two others.
C16_Witness ==
  \E p \in Procs :
    /\ Did(p, "DeleteHandler")
    /\ call[p].t \in DOMAIN Handlers
    /\ Len(handlers[p]) = MaxHandlers
    /\ DistinctIds(handlers[p])
    /\ handlers[p][1].Id = call[p].f
    /\ Len(Handlers[call[p].t]) = MaxHandlers - 1

\* C18: in the typed Bus with Id and Callback, when several handlers of a
\* type share the id given to DeleteHandler, the call removes exactly one of
\* them: what is left are the handlers found without one entry of that id.
C18_DeleteHandlerRemovesOne ==
  \A p \in Procs :
    LET t == call[p].t
        old == handlers[p]
        hit == {i \in DOMAIN old : old[i].Id = call[p].f}
    IN (Did(p, "DeleteHandler") /\ t \in DOMAIN Handlers /\ Cardinality(hit) >= 2)
         => \E k \in hit :
              /\ Len(Handlers[t]) = Len(old) - 1
              /\ \A h \in IdHandlers :
                   CountIn(Handlers[t], h) = CountIn(WithoutIndex(old, k), h)

\* C19: in the typed Bus with Name and Fun, a Fire that has launched the
\* handlers of a type holding at least one, all of which have returned, can
\* return to its caller.
C19_NamedFireReturns ==
  \A p \in Procs :
    (/\ call[p].name = "Fire"
     /\ pc[p] = "go"
     /\ Len(handlers[p]) >= 1
     /\ Len(gor[p]) = Len(handlers[p])
     /\ \A i \in 1..Len(gor[p]) : gor[p][i].st = "returned")
    => ENABLED NamedFireWait(p)

\* C21: Add(topic, nil) and Delete(topic, nil) with the untyped nil end by
\* returning the invalid-callback error, as for any other value that is no
\* function, and leave the registry unchanged: the call does not panic.
C21_NilCallbackIsError ==
  [][\A p \in Procs :
       /\ ( /\ call'[p].name = "Add"
            /\ call'[p].f = NilValue
            /\ (pc'[p] # pc[p] \/ call'[p] # call[p]) )
          => /\ pc'[p] = "ret"
             /\ res'[p].err = "error"
             /\ callbacks' = callbacks
       /\ (Leaves(p, "Delete") /\ call[p].f = NilValue)
          => /\ res'[p].err = "error"
             /\ callbacks' = callbacks]_vars

====
